---- MODULE Spec2Model ----
(***************************************************************************)
(* Model of the analog library: the AnalogVector / AnalogMatrix tensor      *)
(* handles (quantize on transfer, dequantize on store), the scale-array     *)
(* AnalogContext and the mvm_* tile operations of analog_operations.h, and  *)
(* the handle-pointer revision of the context and the operations            *)
(* (analogContext.h, analogOperations.h, analogType.h).                     *)
(*                                                                          *)
(* Floating-point quantities (host elements, scale factors) are modelled    *)
(* as exact rationals <<n, d>> in lowest terms with d > 0; floating-point   *)
(* rounding of the arithmetic itself is outside the model.  Quantized       *)
(* elements keep the width of the device type (8-bit signed).               *)
(***************************************************************************)
EXTENDS Integers, Sequences, FiniteSets, TLC

\* ------------------------------------------------------------------------
\* Bounds of the model
\* ------------------------------------------------------------------------
\* Number of tiles the context is constructed for (AnalogContext(num_arrays)).
NumArrays == 2
\* Host buffers of the quantizer runs have 1..MaxLen elements ...
MaxLen == 2
\* ... each an integer-valued float in -MaxAbs..MaxAbs.
MaxAbs == 3
\* The example program is run with host constants in 1..MaxConst.
MaxConst == 4

\* ------------------------------------------------------------------------
\* Program constants
\* ------------------------------------------------------------------------
DEVICE_ROWS == 5
DEVICE_COLS == 6
\* std::numeric_limits<int8_t>::max() / ::min(), the device type of example.cpp
max_type_limit == 127
min_type_limit == -128
\* width of the device type in bits
QBits == 8

\* ------------------------------------------------------------------------
\* Exact rationals
\* ------------------------------------------------------------------------
Abs(x) == IF x < 0 THEN -x ELSE x

RECURSIVE GCD(_, _)
GCD(a, b) == IF b = 0 THEN a ELSE GCD(b, a % b)

\* n/d in lowest terms, d > 0
Rat(n, d) ==
    LET s == IF d < 0 THEN -1 ELSE 1
        g == GCD(Abs(n), Abs(d))
    IN  <<(s * n) \div g, (s * d) \div g>>

RInt(n) == <<n, 1>>
RZero == RInt(0)
ROne == RInt(1)
RMul(a, b) == Rat(a[1] * b[1], a[2] * b[2])
RDiv(a, b) == Rat(a[1] * b[2], a[2] * b[1])
RSub(a, b) == Rat(a[1] * b[2] - b[1] * a[2], a[2] * b[2])
RLeq(a, b) == a[1] * b[2] <= b[1] * a[2]
RLt(a, b) == a[1] * b[2] < b[1] * a[2]
RAbs(a) == <<Abs(a[1]), a[2]>>
RMax(a, b) == IF RLt(a, b) THEN b ELSE a

\* std::llround: nearest integer, halfway cases away from zero
LLRound(r) ==
    IF r[1] >= 0 THEN (2 * r[1] + r[2]) \div (2 * r[2])
    ELSE -((2 * (-r[1]) + r[2]) \div (2 * r[2]))

\* static_cast<qT>(long long): narrowing to the 8-bit signed device type
NarrowQ(v) == ((v + 2^(QBits - 1)) % 2^QBits) - 2^(QBits - 1)

\* ------------------------------------------------------------------------
\* AnalogVector<T, qT>  (AnalogVector.h)
\* A handle is a record; `same` is std::is_same<T, qT>::value.  Elements of
\* host_arr and device_arr are rationals (quantized elements are integers).
\* ------------------------------------------------------------------------
\* a null host pointer (T* arr = nullptr, T** mat = nullptr)
NullPtr == <<>>

\* AnalogVector(T* arr, uint32_t length): device_arr = new qT[device_length]()
AnalogVector(arr, length, same) ==
    [kind |-> "vector", same |-> same,
     host_length |-> length, host_arr |-> arr,
     device_length |-> DEVICE_COLS,
     device_arr |-> [i \in 0..(DEVICE_COLS - 1) |-> RZero],
     scale_factor |-> ROne]

\* AnalogVector(uint32_t length): host_arr = new T[host_length]()
AnalogVectorOwned(length, same) ==
    AnalogVector([i \in 0..(length - 1) |-> RZero], length, same)

\* faulty variant: the copy loop stops one element early
VecDirectTransferShort(h) ==
    [h EXCEPT !.device_arr =
        [i \in DOMAIN h.device_arr |->
            IF i < h.host_length - 1 THEN h.host_arr[i] ELSE h.device_arr[i]]]

\* if (host_arr == nullptr) { std::cerr << ...; return; }
\* for (i < host_length) device_arr[i] = host_arr[i];
VecDirectTransferToDevice(h) ==
    IF h.host_arr = NullPtr THEN h
    ELSE [h EXCEPT !.device_arr =
             [i \in DOMAIN h.device_arr |->
                 IF i < h.host_length THEN h.host_arr[i] ELSE h.device_arr[i]]]

\* faulty variant: the maximum is taken over the signed values, std::abs left out
RECURSIVE VecMaxSigned(_, _)
VecMaxSigned(arr, n) ==
    IF n = 0 THEN RZero
    ELSE LET m == VecMaxSigned(arr, n - 1)
             t == arr[n - 1]
         IN  IF RLt(m, t) THEN t ELSE m

\* the max_abs_value loop over the first n host elements
RECURSIVE VecMaxAbs(_, _)
VecMaxAbs(arr, n) ==
    IF n = 0 THEN RZero
    ELSE LET m == VecMaxAbs(arr, n - 1)
             t == RAbs(arr[n - 1])
         IN  IF RLt(m, t) THEN t ELSE m

\* faulty variant: the floor for an all-zero buffer is the type's maximum, not 1.0
ScaleOfFloorMax(maxAbs) == IF maxAbs = RZero THEN RInt(max_type_limit) ELSE maxAbs

\* scale_factor = (max_abs_value == 0.0f) ? 1.0f : max_abs_value;
ScaleOf(maxAbs) == IF maxAbs = RZero THEN ROne ELSE maxAbs

\* one element of the quantization loop: scale, clamp, round, narrow
QuantizeElem(x, scale) ==
    LET scaled == RMul(RDiv(x, scale), RInt(max_type_limit))
        clamped == IF RLt(RInt(max_type_limit), scaled) THEN RInt(max_type_limit)
                   ELSE IF RLt(scaled, RInt(min_type_limit)) THEN RInt(min_type_limit)
                   ELSE scaled
    IN  RInt(NarrowQ(LLRound(clamped)))

\* device_arr is reallocated zero-initialised; a null host_arr prints a
\* message and returns there, otherwise the buffer is filled for i < host_length
VecQuantizeTransferToDevice(h) ==
    IF h.host_arr = NullPtr
    THEN [h EXCEPT !.device_arr = [i \in 0..(h.device_length - 1) |-> RZero]]
    ELSE LET sf == ScaleOf(VecMaxAbs(h.host_arr, h.host_length))
         IN  [h EXCEPT !.scale_factor = sf,
                       !.device_arr =
                           [i \in 0..(h.device_length - 1) |->
                               IF i < h.host_length
                               THEN QuantizeElem(h.host_arr[i], sf) ELSE RZero]]

VecTransferToDevice(h) ==
    IF h.same THEN VecDirectTransferToDevice(h) ELSE VecQuantizeTransferToDevice(h)

\* host_arr[i] = device_arr[i];
VecDirectTransferToHost(h) ==
    [h EXCEPT !.host_arr = [i \in 0..(h.host_length - 1) |-> h.device_arr[i]]]

\* faulty variant: the scale is not applied
VecDequantizeIgnoringScale(h, sf) ==
    [h EXCEPT !.host_arr = [i \in 0..(h.host_length - 1) |-> h.device_arr[i]]]

\* host_arr[i] = static_cast<T>(device_arr[i]) * sf;
VecDequantizeTransferToHost(h, sf) ==
    [h EXCEPT !.host_arr = [i \in 0..(h.host_length - 1) |-> RMul(h.device_arr[i], sf)]]

\* faulty variant: the scale is applied whatever the element types are
VecTransferToHostScaled(h, sf) == VecDequantizeTransferToHost(h, sf)

VecTransferToHost(h, sf) ==
    IF h.same THEN VecDirectTransferToHost(h) ELSE VecDequantizeTransferToHost(h, sf)

\* faulty variant: the raw magnitude is returned for every handle
GetScaleFactorRaw(h) == h.scale_factor

\* get_scale_factor(): the raw magnitude for a pass-through handle, the
\* magnitude divided by the device type's maximum otherwise
GetScaleFactor(h) ==
    IF h.same THEN h.scale_factor
    ELSE RDiv(h.scale_factor, RInt(max_type_limit))

\* ------------------------------------------------------------------------
\* AnalogMatrix<T, qT>  (AnalogMatrix.h)
\* host_mat[<<i, j>>] is host_mat[i][j]; device_mat is the flat
\* device_rows * device_cols array, element (i, j) at i * device_cols + j.
\* ------------------------------------------------------------------------
AnalogMatrix(hostm, rows, cols, same) ==
    [kind |-> "matrix", same |-> same,
     host_rows |-> rows, host_cols |-> cols, host_mat |-> hostm,
     device_rows |-> DEVICE_ROWS, device_cols |-> DEVICE_COLS,
     device_mat |-> [k \in 0..(DEVICE_ROWS * DEVICE_COLS - 1) |-> RZero],
     scale_factor |-> ROne]

\* the host rows i with a column j such that the loop body
\* device_index = i * device_cols + j writes flat device index k
WritersOf(h, k) ==
    {i \in 0..(h.host_rows - 1) :
        k - i * h.device_cols >= 0 /\ k - i * h.device_cols < h.host_cols}

\* whether flat device index k is written by the double loop
InHostRegion(h, k) == WritersOf(h, k) # {}

\* the host element the double loop leaves at flat device index k: with
\* host_cols <= device_cols there is one writer, row k / device_cols; with
\* host_cols > device_cols the row-major loop order makes the last row win
HostAt(h, k) ==
    LET i == CHOOSE r \in WritersOf(h, k) : \A q \in WritersOf(h, k) : q <= r
    IN  h.host_mat[<<i, k - i * h.device_cols>>]

\* whether the copy loop of transfer_to_device indexes past the end of the
\* device buffer
Overruns(h) ==
    IF h.kind = "vector" THEN h.host_length > h.device_length
    ELSE (h.host_rows - 1) * h.device_cols + h.host_cols > h.device_rows * h.device_cols

MatDirectTransferToDevice(h) ==
    IF h.host_mat = NullPtr THEN h
    ELSE [h EXCEPT !.device_mat =
             [k \in DOMAIN h.device_mat |->
                 IF InHostRegion(h, k) THEN HostAt(h, k) ELSE h.device_mat[k]]]

\* the max_abs_value double loop, as a fold over the row-major order
RECURSIVE MatMaxAbs(_, _, _)
MatMaxAbs(hostm, cols, n) ==
    IF n = 0 THEN RZero
    ELSE LET m == MatMaxAbs(hostm, cols, n - 1)
             t == RAbs(hostm[<<(n - 1) \div cols, (n - 1) % cols>>])
         IN  IF RLt(m, t) THEN t ELSE m

MatQuantizeTransferToDevice(h) ==
    IF h.host_mat = NullPtr
    THEN [h EXCEPT !.device_mat =
             [k \in 0..(h.device_rows * h.device_cols - 1) |-> RZero]]
    ELSE LET sf == ScaleOf(MatMaxAbs(h.host_mat, h.host_cols, h.host_rows * h.host_cols))
         IN  [h EXCEPT !.scale_factor = sf,
                       !.device_mat =
                           [k \in 0..(h.device_rows * h.device_cols - 1) |->
                               IF InHostRegion(h, k)
                               THEN QuantizeElem(HostAt(h, k), sf) ELSE RZero]]

MatTransferToDevice(h) ==
    IF h.same THEN MatDirectTransferToDevice(h) ELSE MatQuantizeTransferToDevice(h)

HostOf(h) == IF h.kind = "vector" THEN h.host_arr ELSE h.host_mat
DeviceOf(h) == IF h.kind = "vector" THEN h.device_arr ELSE h.device_mat

\* ------------------------------------------------------------------------
\* State
\* ------------------------------------------------------------------------
VARIABLES
    matrix_scales,  \* AnalogContext::matrix_scales, [0..num_arrays-1 -> scale]
    vector_scales,  \* AnalogContext::vector_scales
    output_scales,  \* AnalogContext::output_scales
    handle,         \* the tensor handle of the current call site (NoHandle if none)
    call,           \* history: the most recent call and its arguments
    hist,           \* history, per tile: scales set_matrix / load_vector were given, compute phase
    orig,           \* history: the handle's host buffer before its transfers
    status,         \* history: the status the most recent tile operation returned
    matrices,       \* analogContext::matrices, [0..num_arrays-1 -> handle or nullptr]
    input_vectors,  \* analogContext::input_vectors
    output_vectors, \* analogContext::output_vectors
    analog_types    \* AnalogType::scale_factor of every handle object

ctxVars == <<matrix_scales, vector_scales, output_scales>>
ptrVars == <<matrices, input_vectors, output_vectors, analog_types>>
vars == <<ctxVars, handle, call, hist, orig, status, ptrVars>>

\* the programs of the scale-array revision build no analogContext
NoPtrContext ==
    /\ matrices = <<>>
    /\ input_vectors = <<>>
    /\ output_vectors = <<>>
    /\ analog_types = <<>>

\* a step of a caller that does not keep the returned status
StatusDropped == UNCHANGED <<orig, status, ptrVars>>

NoHandle == [kind |-> "none"]
NoScale == <<>>

Tiles == 0..(NumArrays - 1)
\* tile ids a caller may pass: the valid ones and one id past the end
TileIds == 0..NumArrays

\* `err` is the error the call reports besides the trigger's status: the tile
\* operations have no error path, so it is always "none".  `carried` is the
\* output scale a move_vector should carry to its target tile.
Call(op, t, t2, carried) ==
    [op |-> op, tile |-> t, tile2 |-> t2, carried |-> carried, err |-> "none"]

\* ------------------------------------------------------------------------
\* AnalogContext (AnalogContext.h, the scale-array context)
\* ------------------------------------------------------------------------
\* AnalogContext(num_arrays): every scale initialised to 1.0
CtxInit ==
    /\ matrix_scales = [i \in Tiles |-> ROne]
    /\ vector_scales = [i \in Tiles |-> ROne]
    /\ output_scales = [i \in Tiles |-> ROne]

\* faulty variant: the index is ignored and slot 0 is written
set_matrix_scale_first(value, index) ==
    IF index < NumArrays THEN [matrix_scales EXCEPT ![0] = value]
    ELSE matrix_scales

set_matrix_scale(value, index) ==
    IF index < NumArrays THEN [matrix_scales EXCEPT ![index] = value]
    ELSE matrix_scales

\* faulty variant: the value is written to every slot
set_vector_scale_all(value, index) ==
    IF index < NumArrays THEN [i \in Tiles |-> value]
    ELSE vector_scales

set_vector_scale(value, index) ==
    IF index < NumArrays THEN [vector_scales EXCEPT ![index] = value]
    ELSE vector_scales

\* faulty variant: the vector scale is left out of the product
compute_scale_no_vector(index) ==
    IF index < NumArrays
    THEN [output_scales EXCEPT ![index] = matrix_scales[index]]
    ELSE output_scales

\* faulty variant: the product is accumulated onto the previous output scale
compute_scale_accumulate(index) ==
    IF index < NumArrays
    THEN [output_scales EXCEPT
             ![index] = RMul(@, RMul(matrix_scales[index], vector_scales[index]))]
    ELSE output_scales

compute_scale(index) ==
    IF index < NumArrays
    THEN [output_scales EXCEPT ![index] = RMul(matrix_scales[index], vector_scales[index])]
    ELSE output_scales

\* faulty variant: an index out of range reads as the neutral scale
get_scale_one(index) ==
    IF index < NumArrays THEN output_scales[index] ELSE ROne

get_scale(index) ==
    IF index < NumArrays THEN output_scales[index] ELSE RZero

\* ------------------------------------------------------------------------
\* History bookkeeping (not program state)
\* ------------------------------------------------------------------------
HistInit == [i \in Tiles |-> [m |-> NoScale, v |-> NoScale, phase |-> "idle"]]

\* a set_matrix / load_vector on a computed tile makes its output scale stale
Reloaded(ph) == IF ph = "idle" THEN "idle" ELSE "stale"

HistSetMatrix(t, scale) ==
    IF t \in Tiles
    THEN [hist EXCEPT ![t].m = scale, ![t].phase = Reloaded(@)]
    ELSE hist

HistLoadVector(t, scale) ==
    IF t \in Tiles
    THEN [hist EXCEPT ![t].v = scale, ![t].phase = Reloaded(@)]
    ELSE hist

BothLoaded(t) == hist[t].m # NoScale /\ hist[t].v # NoScale

HistCompute(t) ==
    IF t \in Tiles /\ BothLoaded(t) THEN [hist EXCEPT ![t].phase = "fresh"] ELSE hist

\* ------------------------------------------------------------------------
\* Inputs of the tile operations
\* ------------------------------------------------------------------------
\* constant values and shapes of the host buffers of example.cpp
MatConst == 3
VecConst == 2
ExRows == 3
ExCols == 4

ConstMatrix(a, rows, cols, same) ==
    AnalogMatrix([ij \in (0..(rows - 1)) \X (0..(cols - 1)) |-> RInt(a)], rows, cols, same)

ConstVector(b, length, same) ==
    AnalogVector([i \in 0..(length - 1) |-> RInt(b)], length, same)

\* the tile of example.cpp
array_id == 0

\* matrix handles passed to mvm_set_matrix: the example's matrix, quantizing
\* (T # qT) or pass-through (T = qT)
MatrixArgs == {ConstMatrix(MatConst, ExRows, ExCols, sm) : sm \in BOOLEAN}

\* vector handles passed to mvm_load_vector: the example's vector, quantizing
VectorArgs == {ConstVector(VecConst, ExCols, FALSE)}

\* the example program with other constants: a matrix of a > 0, a vector of b > 0
ExConsts == 1..MaxConst
ExMatrixArgs == {ConstMatrix(a, ExRows, ExCols, FALSE) : a \in ExConsts}
ExVectorArgs == {ConstVector(b, ExCols, FALSE) : b \in ExConsts}

\* quantizing handles a caller built over a null host pointer
NullMatrixArgs == {AnalogMatrix(NullPtr, ExRows, ExCols, FALSE)}
NullVectorArgs == {AnalogVector(NullPtr, ExCols, FALSE)}

\* output handles passed to mvm_store_vector: AnalogVector<T, qT>(cols)
OutArgs == {AnalogVectorOwned(ExCols, sm) : sm \in BOOLEAN}

\* device contents the store trigger may leave in the output buffer
DevVals == {-1, 2}
StoredData == {[i \in 0..(DEVICE_COLS - 1) |-> RInt(d * (i + 1))] : d \in DevVals}

\* ------------------------------------------------------------------------
\* Tile operations (analog_operations.h).  The asm trigger is an external
\* call; the status it returns is handed back to the caller and touches no
\* state of the library.  mat.quantize() / get_scale() / dequantize(scale)
\* are the handles' transfer_to_device() / get_scale_factor() /
\* transfer_to_host(scale), as analogOperations.h names them.
\* ------------------------------------------------------------------------
\* mat.quantize() / vec.quantize() of every handle a caller passes, tabulated
MatrixOnDevice ==
    [h \in MatrixArgs \cup ExMatrixArgs \cup NullMatrixArgs |-> MatTransferToDevice(h)]
VectorOnDevice ==
    [h \in VectorArgs \cup ExVectorArgs \cup NullVectorArgs |-> VecTransferToDevice(h)]

Init ==
    /\ CtxInit
    /\ handle = NoHandle
    /\ call = Call("init", 0, 0, NoScale)
    /\ hist = HistInit
    /\ status = 0
    /\ NoPtrContext
    /\ orig = <<>>

mvm_set_matrix(h, t) ==
    LET q == MatrixOnDevice[h]
        scale == GetScaleFactor(q)
    IN  /\ handle' = q
        /\ matrix_scales' = set_matrix_scale(scale, t)
        /\ hist' = HistSetMatrix(t, scale)
        /\ call' = Call("set_matrix", t, t, NoScale)
        /\ UNCHANGED <<vector_scales, output_scales>>

mvm_load_vector(h, t) ==
    LET q == VectorOnDevice[h]
        scale == GetScaleFactor(q)
    IN  /\ handle' = q
        /\ vector_scales' = set_vector_scale(scale, t)
        /\ hist' = HistLoadVector(t, scale)
        /\ call' = Call("load_vector", t, t, NoScale)
        /\ UNCHANGED <<matrix_scales, output_scales>>

mvm_compute(t) ==
    /\ output_scales' = compute_scale(t)
    /\ hist' = HistCompute(t)
    /\ handle' = NoHandle
    /\ call' = Call("compute", t, t,
                    IF call.op = "move_vector" /\ call.tile2 = t
                    THEN call.carried ELSE NoScale)
    /\ UNCHANGED <<matrix_scales, vector_scales>>

mvm_store_vector(h, t, data) ==
    LET scale == get_scale(t)
        stored == [h EXCEPT !.device_arr = data]
    IN  /\ handle' = VecTransferToHost(stored, scale)
        /\ call' = Call("store_vector", t, t, NoScale)
        /\ UNCHANGED <<ctxVars, hist>>

\* mvm_move_vector(tile_id_a, tile_id_b) takes no context: only the trigger
mvm_move_vector(a, b) ==
    /\ handle' = NoHandle
    /\ call' = Call("move_vector", a, b,
                    IF a \in Tiles /\ b \in Tiles /\ a # b /\ hist[a].phase # "idle"
                    THEN output_scales[a] ELSE NoScale)
    /\ UNCHANGED <<ctxVars, hist>>

SetMatrix ==
    /\ \E h \in MatrixArgs, t \in TileIds : mvm_set_matrix(h, t)
    /\ StatusDropped

LoadVector ==
    /\ \E h \in VectorArgs, t \in TileIds : mvm_load_vector(h, t)
    /\ StatusDropped

Compute ==
    /\ \E t \in TileIds : mvm_compute(t)
    /\ StatusDropped

StoreVector ==
    /\ \E h \in OutArgs, t \in TileIds, data \in StoredData : mvm_store_vector(h, t, data)
    /\ StatusDropped

MoveVector ==
    /\ \E a \in TileIds, b \in TileIds : mvm_move_vector(a, b)
    /\ StatusDropped

Next ==
    \/ SetMatrix
    \/ LoadVector
    \/ Compute
    \/ StoreVector
    \/ MoveVector

Spec == Init /\ [][Next]_vars

\* ------------------------------------------------------------------------
\* Properties of the tile operations (specification Spec)
\* ------------------------------------------------------------------------
ExampleMatrixScale == RDiv(RInt(MatConst), RInt(max_type_limit))
ExampleVectorScale == RDiv(RInt(VecConst), RInt(max_type_limit))

\* C1: for every tile t < num_arrays, set_matrix records the scale m it was
\* given as matrix_scales[t], load_vector records v as vector_scales[t], and
\* right after compute(t) output_scales[t] is exactly m * v, which is also
\* what get_scale(t) returns.
C1_ScaleComposition ==
    /\ \A t \in Tiles : hist[t].m # NoScale => matrix_scales[t] = hist[t].m
    /\ \A t \in Tiles : hist[t].v # NoScale => vector_scales[t] = hist[t].v
    /\ (call.op = "compute" /\ call.tile \in Tiles /\ BothLoaded(call.tile)) =>
          /\ output_scales[call.tile] = RMul(hist[call.tile].m, hist[call.tile].v)
          /\ get_scale(call.tile) = RMul(hist[call.tile].m, hist[call.tile].v)

\* compute has just run on a tile holding the example's quantized matrix and vector
C1_Witness ==
    /\ call.op = "compute" /\ call.tile \in Tiles
    /\ hist[call.tile].m = ExampleMatrixScale
    /\ hist[call.tile].v = ExampleVectorScale
    /\ output_scales[call.tile] = Rat(MatConst * VecConst, max_type_limit * max_type_limit)

\* C2: after move_vector(A, B) from a computed tile A to another tile B,
\* vector_scales[B] is A's output scale sA, and a compute on B that follows
\* leaves output_scales[B] = matrix_scales[B] * sA.
C2_ChainedMove ==
    /\ (call.op = "move_vector" /\ call.carried # NoScale) =>
          vector_scales[call.tile2] = call.carried
    /\ (call.op = "compute" /\ call.carried # NoScale) =>
          output_scales[call.tile] = RMul(matrix_scales[call.tile], call.carried)

\* C3: a compute on a tile that lacks its matrix or its vector reports
\* InvalidState and leaves every output scale as it was.
C3_ComputeNeedsOperands ==
    [][(call'.op = "compute" /\ call'.tile \in Tiles /\ ~BothLoaded(call'.tile)) =>
          (call'.err = "InvalidState" /\ output_scales' = output_scales)]_vars

\* C4 as claimed: every tile that has been computed with both operands loaded
\* has output_scale = matrix_scale * vector_scale, also after a later
\* set_matrix or load_vector.
C4_ProductAlways ==
    \A t \in Tiles :
        hist[t].phase # "idle" =>
            output_scales[t] = RMul(matrix_scales[t], vector_scales[t])

\* C4: a tile computed with both operands loaded has
\* output_scale = matrix_scale * vector_scale for as long as no set_matrix or
\* load_vector has been applied to it since that compute.
C4_ProductWhileFresh ==
    \A t \in Tiles :
        hist[t].phase = "fresh" =>
            output_scales[t] = RMul(matrix_scales[t], vector_scales[t])

\* a computed tile keeps the product while calls go to the other tiles
C4_Witness ==
    \E t \in Tiles :
        /\ hist[t].phase = "fresh"
        /\ output_scales[t] = RMul(ExampleMatrixScale, ExampleVectorScale)
        /\ call.op = "set_matrix" /\ call.tile \in Tiles /\ call.tile # t
        /\ hist[call.tile].phase = "stale"

\* elements 0..host_length-1 of the handle satisfy host = device * scale
HostIsDeviceTimes(h, scale) ==
    \A i \in 0..(h.host_length - 1) : h.host_arr[i] = RMul(h.device_arr[i], scale)

\* C10 as claimed: after store_vector(t, out) every host element of out is
\* its device element times output_scales[t].
C10_StoreScalesAll ==
    (call.op = "store_vector" /\ call.tile \in Tiles) =>
        HostIsDeviceTimes(handle, output_scales[call.tile])

\* C10: after store_vector(t, out) every host element of a quantizing out
\* handle (T # qT) is its device element times output_scales[t]; a
\* pass-through handle (T = qT) receives the device elements unscaled.
C10_StoreScalesQuantizing ==
    (call.op = "store_vector" /\ call.tile \in Tiles) =>
        IF handle.same THEN HostIsDeviceTimes(handle, ROne)
        ELSE HostIsDeviceTimes(handle, output_scales[call.tile])

\* a quantizing out handle stored from a tile whose output scale is the
\* product of the example's scales
C10_Witness ==
    /\ call.op = "store_vector" /\ call.tile \in Tiles
    /\ ~handle.same
    /\ hist[call.tile].phase = "fresh"
    /\ output_scales[call.tile] = RMul(ExampleMatrixScale, ExampleVectorScale)
    /\ handle.device_arr[1] = RInt(4)
    /\ handle.host_arr[1] = Rat(4 * MatConst * VecConst, max_type_limit * max_type_limit)

\* C16: a call on tile i leaves the matrix, vector and output scale of every
\* other tile j as they were; on tile i itself set_matrix changes at most
\* matrix_scales[i], load_vector at most vector_scales[i], compute at most
\* output_scales[i], and store_vector (get_scale) changes no scale at all.
C16_TileIndependence ==
    [][/\ \A j \in Tiles :
              j # call'.tile =>
                  /\ matrix_scales'[j] = matrix_scales[j]
                  /\ vector_scales'[j] = vector_scales[j]
                  /\ output_scales'[j] = output_scales[j]
       /\ call'.op = "set_matrix" =>
              (vector_scales' = vector_scales /\ output_scales' = output_scales)
       /\ call'.op = "load_vector" =>
              (matrix_scales' = matrix_scales /\ output_scales' = output_scales)
       /\ call'.op = "compute" =>
              (matrix_scales' = matrix_scales /\ vector_scales' = vector_scales)
       /\ call'.op = "store_vector" => ctxVars' = ctxVars]_vars

\* load_vector has just written the vector scale of a tile whose other two
\* scales are still the initial 1.0, while another tile keeps the scales of
\* its compute
C16_Witness ==
    \E t \in Tiles :
        /\ call.op = "load_vector" /\ call.tile \in Tiles /\ call.tile # t
        /\ vector_scales[call.tile] = ExampleVectorScale
        /\ matrix_scales[call.tile] = ROne /\ output_scales[call.tile] = ROne
        /\ hist[t].phase = "fresh"
        /\ matrix_scales[t] = ExampleMatrixScale
        /\ vector_scales[t] = ExampleVectorScale
        /\ output_scales[t] = RMul(ExampleMatrixScale, ExampleVectorScale)

\* C19: a set_matrix, load_vector or compute given a tile id >= num_arrays
\* changes no scale and reports no error; get_scale of such an id is 0, so a
\* store_vector on it dequantizes a quantizing out handle with scale 0.
C19_OutOfRangeAbsorbed ==
    /\ [][(call'.tile \notin Tiles
              /\ call'.op \in {"set_matrix", "load_vector", "compute"}) =>
             (ctxVars' = ctxVars /\ call'.err = "none")]_vars
    /\ []((call.op = "store_vector" /\ call.tile \notin Tiles) =>
             /\ get_scale(call.tile) = RZero
             /\ call.err = "none"
             /\ ~handle.same => HostIsDeviceTimes(handle, RZero))

\* a quantizing out handle stored from tile id num_arrays: its host elements
\* are 0 although the device elements are not, while a valid tile has been
\* computed
C19_Witness ==
    /\ call.op = "store_vector" /\ call.tile = NumArrays
    /\ ~handle.same
    /\ handle.device_arr[1] = RInt(4)
    /\ handle.host_arr[1] = RZero
    /\ \E t \in Tiles : hist[t].phase = "fresh"

\* ------------------------------------------------------------------------
\* Reuse of one tile (specification SpecReuse): the tile is set, loaded,
\* computed and stored; after a store the caller may start a new round with
\* a new matrix, a new vector or both and compute again.  orig.round counts
\* the rounds, orig.first keeps the output scale the first store read.
\* ------------------------------------------------------------------------
MaxRounds == 2

InitReuse ==
    /\ CtxInit
    /\ handle = NoHandle
    /\ call = Call("main", array_id, array_id, NoScale)
    /\ hist = HistInit
    /\ orig = [round |-> 1, first |-> NoScale]
    /\ status = 0
    /\ NoPtrContext

\* the round a set_matrix or load_vector belongs to: a new one after a store
RoundOfReload == IF call.op = "store_vector" THEN orig.round + 1 ELSE orig.round

ReuseSetMatrix ==
    /\ call.op \in {"main", "store_vector"}
    /\ RoundOfReload <= MaxRounds
    /\ \E a \in ExConsts : mvm_set_matrix(ConstMatrix(a, ExRows, ExCols, FALSE), array_id)
    /\ orig' = [orig EXCEPT !.round = RoundOfReload]
    /\ UNCHANGED <<status, ptrVars>>

ReuseLoadVector ==
    /\ call.op \in {"set_matrix", "store_vector"}
    /\ RoundOfReload <= MaxRounds
    /\ \E b \in ExConsts : mvm_load_vector(ConstVector(b, ExCols, FALSE), array_id)
    /\ orig' = [orig EXCEPT !.round = RoundOfReload]
    /\ UNCHANGED <<status, ptrVars>>

\* in a later round the compute may follow a set_matrix alone
ReuseCompute ==
    /\ call.op = "load_vector" \/ (call.op = "set_matrix" /\ orig.round > 1)
    /\ mvm_compute(array_id)
    /\ StatusDropped

ReuseStoreVector ==
    /\ call.op = "compute"
    /\ \E h \in OutArgs, data \in StoredData : mvm_store_vector(h, array_id, data)
    /\ orig' = [orig EXCEPT !.first = IF orig.round = 1 THEN get_scale(array_id) ELSE @]
    /\ UNCHANGED <<status, ptrVars>>

NextReuse ==
    \/ ReuseSetMatrix
    \/ ReuseLoadVector
    \/ ReuseCompute
    \/ ReuseStoreVector

SpecReuse == InitReuse /\ [][NextReuse]_vars

\* C13: a compute that follows a new set_matrix and/or load_vector on a tile
\* already set, loaded, computed and stored leaves the output scale at the
\* product of the scales of the matrix and vector handles the tile was given
\* last, which are its current matrix and vector scales.
C13_ReuseAfterStored ==
    (call.op = "compute" /\ orig.round > 1) =>
        /\ output_scales[array_id] = RMul(matrix_scales[array_id], vector_scales[array_id])
        /\ output_scales[array_id] = RMul(hist[array_id].m, hist[array_id].v)

\* the second round reloaded only the vector (4 instead of the example's 2):
\* its compute left 3/127 * 4/127, not the 6/16129 the first store read
C13_Witness ==
    /\ call.op = "compute" /\ orig.round = 2
    /\ orig.first = RMul(ExampleMatrixScale, ExampleVectorScale)
    /\ hist[array_id].m = ExampleMatrixScale
    /\ hist[array_id].v = Rat(4, max_type_limit)
    /\ output_scales[array_id] = Rat(MatConst * 4, max_type_limit * max_type_limit)

\* ------------------------------------------------------------------------
\* set_matrix, load_vector and compute by callers that may also pass handles
\* built over a null host pointer (specification SpecNull)
\* ------------------------------------------------------------------------
SetMatrixNull ==
    /\ \E h \in NullMatrixArgs, t \in TileIds : mvm_set_matrix(h, t)
    /\ StatusDropped

LoadVectorNull ==
    /\ \E h \in NullVectorArgs, t \in TileIds : mvm_load_vector(h, t)
    /\ StatusDropped

NextNull ==
    \/ SetMatrixNull
    \/ LoadVectorNull
    \/ SetMatrix
    \/ LoadVector
    \/ Compute

SpecNull == Init /\ [][NextNull]_vars

\* C12: a set_matrix or load_vector whose handle has a null host buffer
\* reports InvalidState to its caller and records no scale in the context.
C12_NullHostRejected ==
    [][(call'.op \in {"set_matrix", "load_vector"} /\ HostOf(handle') = NullPtr) =>
          (call'.err = "InvalidState" /\ ctxVars' = ctxVars)]_vars

\* ------------------------------------------------------------------------
\* The transfers of one handle (specification SpecQ): a caller builds a
\* handle over a host buffer, transfers it to the device and, for a vector,
\* back to the host.
\* ------------------------------------------------------------------------
HostVals == {RInt(x) : x \in (-MaxAbs)..MaxAbs}

QVectors ==
    UNION {{AnalogVector(arr, n, sm) : arr \in [0..(n - 1) -> HostVals], sm \in BOOLEAN} :
              n \in 1..MaxLen}

\* a rows x cols matrix of value a whose element at row-major position p is b
OneOffMatrix(rows, cols, a, b, p, same) ==
    AnalogMatrix([ij \in (0..(rows - 1)) \X (0..(cols - 1)) |->
                     IF ij[1] * cols + ij[2] = p THEN b ELSE a],
                 rows, cols, same)

QMatrices ==
    UNION {{OneOffMatrix(rc[1], rc[2], a, b, p, sm) :
               a \in HostVals, b \in HostVals, p \in 0..(rc[1] * rc[2] - 1), sm \in BOOLEAN} :
              rc \in (1..MaxLen) \X (1..MaxLen)}


\* scales a caller may pass to transfer_to_host besides the handle's own
OtherScales == {RInt(2)}

InitQ ==
    /\ CtxInit
    /\ handle \in QVectors \cup QMatrices
    /\ orig = HostOf(handle)
    /\ call = Call("new", 0, 0, NoScale)
    /\ hist = HistInit
    /\ status = 0
    /\ NoPtrContext

TransferToDevice ==
    /\ call.op = "new"
    /\ ~Overruns(handle)
    /\ handle' = IF handle.kind = "vector" THEN VecTransferToDevice(handle)
                 ELSE MatTransferToDevice(handle)
    /\ call' = Call("transfer_to_device", 0, 0, NoScale)
    /\ UNCHANGED <<ctxVars, hist, orig, status, ptrVars>>

\* transfer_to_host(sf); the scale passed is kept in call.carried
TransferToHost ==
    /\ call.op = "transfer_to_device"
    /\ handle.kind = "vector"
    /\ \E sf \in {GetScaleFactor(handle)} \cup OtherScales :
          /\ handle' = VecTransferToHost(handle, sf)
          /\ call' = Call("transfer_to_host", 0, 0, sf)
    /\ UNCHANGED <<ctxVars, hist, orig, status, ptrVars>>

\* transfer_to_device() of a handle whose loop runs past the device buffer:
\* the stores beyond the allocation are undefined behaviour.  Either they
\* land in the memory behind the buffer and the call returns as usual
\* ("transfer_to_device"), or the process is stopped ("abort"); the elements
\* inside the buffer are written in both cases.
TransferOverrun ==
    /\ call.op = "new"
    /\ Overruns(handle)
    /\ handle' = IF handle.kind = "vector" THEN VecTransferToDevice(handle)
                 ELSE MatTransferToDevice(handle)
    /\ \E outcome \in {"transfer_to_device", "abort"} :
          call' = Call(outcome, 0, 0, NoScale)
    /\ UNCHANGED <<ctxVars, hist, orig, status, ptrVars>>

\* get_device_arr() / get_device_mat(): the pointer to the device buffer is
\* returned as it is; call.carried keeps what the caller reads through it and
\* whether a transfer had filled the buffer before
GetDeviceBuffer ==
    /\ call.op \in {"new", "transfer_to_device", "transfer_to_host"}
    /\ call' = Call(IF handle.kind = "vector" THEN "get_device_arr" ELSE "get_device_mat",
                    0, 0,
                    [populated |-> call.op # "new", data |-> DeviceOf(handle)])
    /\ UNCHANGED <<ctxVars, handle, hist, orig, status, ptrVars>>

NextQ ==
    \/ TransferToDevice
    \/ TransferToHost
    \/ GetDeviceBuffer

SpecQ == InitQ /\ [][NextQ]_vars

\* ------------------------------------------------------------------------
\* Transfers of handles larger than the device (specification SpecCap): the
\* host vector is one element longer than DEVICE_COLS, the host matrix one
\* column wider than DEVICE_COLS or one row taller than DEVICE_ROWS
\* ------------------------------------------------------------------------
\* a vector of value a whose element p is b
OneOffVector(length, a, b, p, same) ==
    AnalogVector([i \in 0..(length - 1) |-> IF i = p THEN b ELSE a], length, same)

CapVectors ==
    {OneOffVector(DEVICE_COLS + 1, a, b, p, sm) :
        a \in HostVals, b \in HostVals, p \in 0..DEVICE_COLS, sm \in BOOLEAN}

CapShapes == {<<1, DEVICE_COLS + 1>>, <<2, DEVICE_COLS + 1>>, <<DEVICE_ROWS + 1, 1>>}

CapMatrices ==
    UNION {{OneOffMatrix(rc[1], rc[2], a, b, p, sm) :
               a \in HostVals, b \in HostVals, p \in 0..(rc[1] * rc[2] - 1), sm \in BOOLEAN} :
              rc \in CapShapes}

InitCap ==
    /\ CtxInit
    /\ handle \in CapVectors \cup CapMatrices
    /\ orig = HostOf(handle)
    /\ call = Call("new", 0, 0, NoScale)
    /\ hist = HistInit
    /\ status = 0
    /\ NoPtrContext

NextCap ==
    \/ TransferToDevice
    \/ TransferOverrun
    \/ GetDeviceBuffer

SpecCap == InitCap /\ [][NextCap]_vars

\* the host shape does not fit the device buffer
ExceedsCapacity(h) ==
    IF h.kind = "vector" THEN h.host_length > DEVICE_COLS
    ELSE h.host_rows > DEVICE_ROWS \/ h.host_cols > DEVICE_COLS

\* C11: transfer_to_device on a handle whose host shape exceeds the device
\* capacity fails with CapacityExceeded and writes no element: nothing lands
\* outside the buffer, nothing is truncated or wrapped onto another position.
C11_CapacityChecked ==
    (call.op \in {"transfer_to_device", "abort"} /\ ExceedsCapacity(handle)) =>
        /\ call.err = "CapacityExceeded"
        /\ \A k \in DOMAIN DeviceOf(handle) : DeviceOf(handle)[k] = RZero

\* ------------------------------------------------------------------------
\* Properties of the transfers (specification SpecQ)
\* ------------------------------------------------------------------------
\* <<host element, device element>> for every host position of the handle
Pairs(h) ==
    IF h.kind = "vector"
    THEN {<<h.host_arr[i], h.device_arr[i]>> : i \in 0..(h.host_length - 1)}
    ELSE {<<HostAt(h, k), h.device_mat[k]>> : k \in {j \in DOMAIN h.device_mat : InHostRegion(h, j)}}

HostElems(h) == {pr[1] : pr \in Pairs(h)}

\* max |x| over the host buffer
MaxAbsHost(h) ==
    CHOOSE m \in {RAbs(x) : x \in HostElems(h)} :
        \A x \in HostElems(h) : RLeq(RAbs(x), m)

AllZeroHost(h) == \A x \in HostElems(h) : x = RZero

\* C5: a quantizing vector handle transferred to the device and back with
\* its own scale (get_scale_factor) recovers every element x[i] within
\* max|x| / max_representable(qT).
C5_RoundTrip ==
    (call.op = "transfer_to_host" /\ ~handle.same /\ call.carried = GetScaleFactor(handle)) =>
        \A i \in 0..(handle.host_length - 1) :
            RLeq(RAbs(RSub(handle.host_arr[i], orig[i])),
                 RDiv(VecMaxAbs(orig, handle.host_length), RInt(max_type_limit)))

\* a round trip that loses precision on one element and keeps another exactly
C5_Witness ==
    /\ call.op = "transfer_to_host" /\ ~handle.same
    /\ call.carried = GetScaleFactor(handle)
    /\ handle.host_length = 2
    /\ handle.host_arr[0] # orig[0]
    /\ handle.host_arr[1] = orig[1] /\ orig[1] # RZero

\* C6: quantizing an all-zero host buffer (vector or matrix) sets
\* scale_factor to 1.0, never 0, and leaves every device element zero.
C6_ScaleFloor ==
    (call.op = "transfer_to_device" /\ ~handle.same /\ AllZeroHost(handle)) =>
        /\ handle.scale_factor = ROne
        /\ handle.scale_factor # RZero
        /\ \A k \in DOMAIN DeviceOf(handle) : DeviceOf(handle)[k] = RZero

\* an all-zero matrix of more than one element has been quantized
C6_Witness ==
    /\ call.op = "transfer_to_device" /\ ~handle.same
    /\ handle.kind = "matrix" /\ handle.host_rows = 2 /\ handle.host_cols = 2
    /\ AllZeroHost(handle)
    /\ handle.scale_factor = ROne

\* C7 as claimed: +max|x| quantizes to max_representable, -max|x| to
\* min_representable, and no quantized element leaves the type's range.
C7_ClampToLimits ==
    (call.op = "transfer_to_device" /\ ~handle.same /\ ~AllZeroHost(handle)) =>
        /\ \A pr \in Pairs(handle) :
              /\ pr[1] = MaxAbsHost(handle) => pr[2] = RInt(max_type_limit)
              /\ pr[1] = RSub(RZero, MaxAbsHost(handle)) => pr[2] = RInt(min_type_limit)
        /\ \A k \in DOMAIN DeviceOf(handle) :
              /\ RLeq(RInt(min_type_limit), DeviceOf(handle)[k])
              /\ RLeq(DeviceOf(handle)[k], RInt(max_type_limit))

\* C7: +max|x| quantizes to max_representable, -max|x| to -max_representable
\* (one above min_representable), and no quantized element leaves the
\* type's range.
C7_ClampSymmetric ==
    (call.op = "transfer_to_device" /\ ~handle.same /\ ~AllZeroHost(handle)) =>
        /\ \A pr \in Pairs(handle) :
              /\ pr[1] = MaxAbsHost(handle) => pr[2] = RInt(max_type_limit)
              /\ pr[1] = RSub(RZero, MaxAbsHost(handle)) => pr[2] = RInt(-max_type_limit)
        /\ \A k \in DOMAIN DeviceOf(handle) :
              /\ RLeq(RInt(min_type_limit), DeviceOf(handle)[k])
              /\ RLeq(DeviceOf(handle)[k], RInt(max_type_limit))

\* a quantized vector holding both +max|x| and -max|x|
C7_Witness ==
    /\ call.op = "transfer_to_device" /\ ~handle.same
    /\ handle.kind = "vector" /\ handle.host_length = 2
    /\ handle.host_arr[0] = RInt(-2) /\ handle.host_arr[1] = RInt(2)
    /\ handle.device_arr[0] = RInt(-max_type_limit)
    /\ handle.device_arr[1] = RInt(max_type_limit)

\* C8: a pass-through vector handle (T = qT) transferred to the device and
\* back has its host buffer equal, element for element, to the original.
C8_PassThroughIdentity ==
    (call.op = "transfer_to_host" /\ handle.same) => handle.host_arr = orig

\* a pass-through round trip of a buffer of two different non-zero elements
C8_Witness ==
    /\ call.op = "transfer_to_host" /\ handle.same
    /\ handle.host_length = 2
    /\ orig[0] # RZero /\ orig[1] # RZero /\ orig[0] # orig[1]
    /\ handle.device_arr[0] = orig[0] /\ handle.device_arr[1] = orig[1]
    /\ handle.host_arr = orig

\* C15: reading the device buffer of a handle on which no transfer has
\* happened reports an error instead of handing out a buffer of zeros.
C15_ReadBeforeTransferFails ==
    (call.op \in {"get_device_arr", "get_device_mat"} /\ ~call.carried.populated) =>
        call.err # "none"

\* C14: transfer_to_host(s) of a pass-through vector handle (T = qT) copies
\* the device elements to the host whatever s is: the host buffer the call
\* left is the one every other scale would have left from the same device
\* contents.
C14_ScaleIgnored ==
    (call.op = "transfer_to_host" /\ handle.same) =>
        /\ HostIsDeviceTimes(handle, ROne)
        /\ \A s \in {RZero, GetScaleFactor(handle)} \cup OtherScales :
              VecTransferToHost(handle, s).host_arr = handle.host_arr

\* a pass-through handle of two non-zero elements brought back with a scale
\* that is neither 1 nor the handle's own
C14_Witness ==
    /\ call.op = "transfer_to_host" /\ handle.same
    /\ call.carried = RInt(2) /\ call.carried # GetScaleFactor(handle)
    /\ handle.host_length = 2
    /\ handle.device_arr[0] = RInt(-1) /\ handle.device_arr[1] = RInt(3)
    /\ handle.host_arr[0] = RInt(-1) /\ handle.host_arr[1] = RInt(3)

\* ------------------------------------------------------------------------
\* example.cpp, main(): one matrix of constant a and one vector of constant
\* b (orig = <<a, b>>) are set, loaded, computed and stored on tile array_id
\* (specification SpecEx)
\* ------------------------------------------------------------------------
InitEx ==
    /\ CtxInit
    /\ handle = NoHandle
    /\ orig \in ExConsts \X ExConsts
    /\ call = Call("main", array_id, array_id, NoScale)
    /\ hist = HistInit
    /\ status = 0
    /\ NoPtrContext

ExSetMatrix ==
    /\ call.op = "main"
    /\ mvm_set_matrix(ConstMatrix(orig[1], ExRows, ExCols, FALSE), array_id)
    /\ StatusDropped

ExLoadVector ==
    /\ call.op = "set_matrix"
    /\ mvm_load_vector(ConstVector(orig[2], ExCols, FALSE), array_id)
    /\ StatusDropped

ExCompute ==
    /\ call.op = "load_vector"
    /\ mvm_compute(array_id)
    /\ StatusDropped

ExStoreVector ==
    /\ call.op = "compute"
    /\ \E h \in OutArgs, data \in StoredData : mvm_store_vector(h, array_id, data)
    /\ StatusDropped

NextEx ==
    \/ ExSetMatrix
    \/ ExLoadVector
    \/ ExCompute
    \/ ExStoreVector

SpecEx == InitEx /\ [][NextEx]_vars

\* every quantized entry of the handle's host-shaped region is the type's maximum
AllEntriesMax(h) == \A pr \in Pairs(h) : pr[2] = RInt(max_type_limit)

\* C9 as claimed: the handles' scale factors are the raw magnitudes a and b,
\* every quantized entry is 127, and the output scale after compute is a * b.
C9_RawMagnitudes ==
    /\ call.op = "set_matrix" =>
          (GetScaleFactor(handle) = RInt(orig[1]) /\ AllEntriesMax(handle))
    /\ call.op = "load_vector" =>
          (GetScaleFactor(handle) = RInt(orig[2]) /\ AllEntriesMax(handle))
    /\ call.op = "compute" => output_scales[array_id] = RInt(orig[1] * orig[2])

\* C9: the handles' scale factors (get_scale_factor) are the magnitudes
\* divided by the type's maximum, a / 127 and b / 127, kept from the raw
\* magnitudes a and b in the scale_factor field; every quantized entry is
\* 127; the output scale after compute is (a / 127) * (b / 127).
C9_RatioScales ==
    /\ call.op = "set_matrix" =>
          /\ handle.scale_factor = RInt(orig[1])
          /\ GetScaleFactor(handle) = Rat(orig[1], max_type_limit)
          /\ AllEntriesMax(handle)
    /\ call.op = "load_vector" =>
          /\ handle.scale_factor = RInt(orig[2])
          /\ GetScaleFactor(handle) = Rat(orig[2], max_type_limit)
          /\ AllEntriesMax(handle)
    /\ call.op = "compute" =>
          output_scales[array_id] = Rat(orig[1] * orig[2], max_type_limit * max_type_limit)

\* the documented case, a = 3.0 and b = 2.0, after compute
C9_Witness ==
    /\ call.op = "compute"
    /\ orig = <<MatConst, VecConst>>
    /\ matrix_scales[array_id] = ExampleMatrixScale
    /\ vector_scales[array_id] = ExampleVectorScale
    /\ output_scales[array_id] = Rat(6, 16129)

\* ------------------------------------------------------------------------
\* example.cpp's calls made by a caller that keeps the status each of them
\* returns (specification SpecStatus).  The trigger's status is an input:
\* 0, or nonzero for a fault the device reports.
\* ------------------------------------------------------------------------
StatusCodes == {0, 1}

\* asm volatile("mvm.set %0, ..." : "=r"(status_flag)); return status_flag;
mvm_set_matrix_status(h, t, st) ==
    /\ mvm_set_matrix(h, t)
    /\ status' = st

mvm_load_vector_status(h, t, st) ==
    /\ mvm_load_vector(h, t)
    /\ status' = st

\* faulty variant: the output scale is computed only when the trigger succeeded
mvm_compute_status_checked(t, st) ==
    /\ IF st = 0 THEN mvm_compute(t)
       ELSE /\ handle' = NoHandle
            /\ call' = Call("compute", t, t, NoScale)
            /\ UNCHANGED <<ctxVars, hist>>
    /\ status' = st

mvm_compute_status(t, st) ==
    /\ mvm_compute(t)
    /\ status' = st

mvm_store_vector_status(h, t, data, st) ==
    /\ mvm_store_vector(h, t, data)
    /\ status' = st

StSetMatrix ==
    /\ call.op = "main"
    /\ \E st \in StatusCodes :
          mvm_set_matrix_status(ConstMatrix(orig[1], ExRows, ExCols, FALSE), array_id, st)
    /\ UNCHANGED <<orig, ptrVars>>

StLoadVector ==
    /\ call.op = "set_matrix"
    /\ \E st \in StatusCodes :
          mvm_load_vector_status(ConstVector(orig[2], ExCols, FALSE), array_id, st)
    /\ UNCHANGED <<orig, ptrVars>>

StCompute ==
    /\ call.op = "load_vector"
    /\ \E st \in StatusCodes : mvm_compute_status(array_id, st)
    /\ UNCHANGED <<orig, ptrVars>>

StStoreVector ==
    /\ call.op = "compute"
    /\ \E h \in OutArgs, data \in StoredData, st \in StatusCodes :
          mvm_store_vector_status(h, array_id, data, st)
    /\ UNCHANGED <<orig, ptrVars>>

NextStatus ==
    \/ StSetMatrix
    \/ StLoadVector
    \/ StCompute
    \/ StStoreVector

SpecStatus == InitEx /\ [][NextStatus]_vars

\* C20: whatever status the trigger of set_matrix, load_vector or compute
\* returns to the caller, 0 or nonzero, the context holds the scale the call
\* records: a / 127 as the matrix scale, b / 127 as the vector scale, their
\* product as the output scale.
C20_StatusIndependent ==
    \A st \in StatusCodes :
        status = st =>
            /\ call.op = "set_matrix" =>
                  matrix_scales[array_id] = Rat(orig[1], max_type_limit)
            /\ call.op = "load_vector" =>
                  vector_scales[array_id] = Rat(orig[2], max_type_limit)
            /\ call.op = "compute" =>
                  /\ matrix_scales[array_id] = Rat(orig[1], max_type_limit)
                  /\ vector_scales[array_id] = Rat(orig[2], max_type_limit)
                  /\ output_scales[array_id] =
                         RMul(Rat(orig[1], max_type_limit), Rat(orig[2], max_type_limit))

\* the compute of the documented case returned a nonzero status and the
\* output scale is 6/16129 all the same
C20_Witness ==
    /\ call.op = "compute" /\ status = 1
    /\ orig = <<MatConst, VecConst>>
    /\ output_scales[array_id] = RMul(ExampleMatrixScale, ExampleVectorScale)
    /\ output_scales[array_id] # ROne

\* ------------------------------------------------------------------------
\* The handle-pointer revision (analogContext.h, analogOperations.h,
\* analogType.h; specification SpecPtr).  The context keeps, per tile,
\* pointers to the handles it was given; a handle is an AnalogType object
\* whose scale_factor the operations read and update in place.  The handle
\* classes of this revision are not among the sources: whether their
\* transfer_to_device() writes the scale of the data to
\* AnalogType::scale_factor ("sets") or leaves that member alone ("keeps",
\* what AnalogVector.h's own scale_factor member would do) is fixed per run
\* and kept in orig.  Tile ids are valid ones: the arrays are not bounds
\* checked.
\* ------------------------------------------------------------------------
nullptr == "nullptr"

PtrMatrices == {"matA", "matB"}
PtrVectors == {"vecX", "vecY"}
PtrTiles == {0, 1}

\* the scale of each handle's host data
DataScale(o) ==
    CASE o = "matA" -> RInt(2)
      [] o = "matB" -> RInt(3)
      [] o = "vecX" -> RInt(5)
      [] o = "vecY" -> RInt(7)

\* bounds of the search: the largest scale a compute may produce and the
\* longest run of computes on one tile
MaxPtrScale == 63
MaxComputes == 3

RECURSIVE RPow(_, _)
RPow(x, k) == IF k = 0 THEN ROne ELSE RMul(x, RPow(x, k - 1))

\* analogContext(num_arrays): every pointer nullptr; AnalogType(): 1.0
InitPtr ==
    /\ matrices = [t \in PtrTiles |-> nullptr]
    /\ input_vectors = [t \in PtrTiles |-> nullptr]
    /\ output_vectors = [t \in PtrTiles |-> nullptr]
    /\ analog_types = [o \in PtrMatrices \cup PtrVectors |-> ROne]
    /\ matrix_scales = <<>> /\ vector_scales = <<>> /\ output_scales = <<>>
    /\ handle = NoHandle
    /\ call = Call("init", 0, 0, NoScale)
    /\ hist = HistInit
    /\ orig \in {"sets", "keeps"}
    /\ status = 0

\* mat.transfer_to_device() / vec.transfer_to_device() of handle object o
PtrTransferToDevice(o) ==
    IF orig = "sets" THEN [analog_types EXCEPT ![o] = DataScale(o)]
    ELSE analog_types

\* faulty variant: the scale is assigned, not multiplied in
update_scale_factor_assign(o, scale) == [analog_types EXCEPT ![o] = scale]

\* AnalogType::update_scale_factor: scale_factor *= scale
update_scale_factor(o, scale) == [analog_types EXCEPT ![o] = RMul(@, scale)]

\* AnalogType::get_scale_factor
get_scale_factor(o) == analog_types[o]

set_matrix(mat, tile_id) == [matrices EXCEPT ![tile_id] = mat]
get_matrix(tile_id) == matrices[tile_id]
set_input_vector(vec, tile_id) == [input_vectors EXCEPT ![tile_id] = vec]
get_input_vector(tile_id) == input_vectors[tile_id]
compute_update(tile_id) == [output_vectors EXCEPT ![tile_id] = input_vectors[tile_id]]

\* faulty variant: source and target tile are exchanged
move_vector_swapped(tile_id, tile_id_new) ==
    [input_vectors EXCEPT ![tile_id] = output_vectors[tile_id_new]]

move_vector(tile_id, tile_id_new) ==
    [input_vectors EXCEPT ![tile_id_new] = output_vectors[tile_id]]

\* the scale mvm_store_vector reads for tile t
StoreScale(t) == get_scale_factor(get_input_vector(t))

PtrFrame == UNCHANGED <<ctxVars, hist, orig, status>>

PtrSetMatrix ==
    /\ call.op # "abort"
    /\ \E mat \in PtrMatrices, t \in PtrTiles :
          /\ analog_types' = PtrTransferToDevice(mat)
          /\ matrices' = set_matrix(mat, t)
          /\ call' = Call("set_matrix", t, t, NoScale)
    /\ handle' = NoHandle
    /\ UNCHANGED <<input_vectors, output_vectors>>
    /\ PtrFrame

PtrLoadVector ==
    /\ call.op # "abort"
    /\ \E vec \in PtrVectors, t \in PtrTiles :
          /\ analog_types' = PtrTransferToDevice(vec)
          /\ input_vectors' = set_input_vector(vec, t)
          /\ call' = Call("load_vector", t, t, NoScale)
    /\ handle' = NoHandle
    /\ UNCHANGED <<matrices, output_vectors>>
    /\ PtrFrame

\* call.carried of a compute: k, how many computes have run on the tile in a
\* row; v, the vector handle's scale before the first of them; via, the tile
\* the vector was moved from by the call just before (-1 if none)
ComputeRun(t) ==
    IF call.op = "compute" /\ call.tile = t
    THEN [call.carried EXCEPT !.k = @ + 1, !.via = -1]
    ELSE [k |-> 1, v |-> StoreScale(t),
          via |-> IF call.op = "move_vector" /\ call.tile2 = t /\ call.carried
                  THEN call.tile ELSE -1]

PtrCompute ==
    /\ call.op # "abort"
    /\ \E t \in PtrTiles :
          LET mat == get_matrix(t)
              vec == get_input_vector(t)
          IN  /\ mat # nullptr /\ vec # nullptr
              /\ ComputeRun(t).k <= MaxComputes
              /\ RLeq(RMul(get_scale_factor(vec), get_scale_factor(mat)), RInt(MaxPtrScale))
              /\ output_vectors' = compute_update(t)
              /\ analog_types' = update_scale_factor(vec, get_scale_factor(mat))
              /\ call' = Call("compute", t, t, ComputeRun(t))
    /\ handle' = NoHandle
    /\ UNCHANGED <<matrices, input_vectors>>
    /\ PtrFrame

\* mvm_compute on a tile without a matrix or an input vector calls a member
\* of a null AnalogType*: the process is stopped
PtrComputeNull ==
    /\ call.op # "abort"
    /\ \E t \in PtrTiles :
          /\ get_matrix(t) = nullptr \/ get_input_vector(t) = nullptr
          /\ output_vectors' = compute_update(t)
          /\ call' = Call("abort", t, t, NoScale)
    /\ handle' = NoHandle
    /\ UNCHANGED <<matrices, input_vectors, analog_types>>
    /\ PtrFrame

\* the scale read is kept in call.carried
PtrStoreVector ==
    /\ call.op # "abort"
    /\ \E t \in PtrTiles, data \in StoredData :
          /\ get_input_vector(t) # nullptr
          /\ handle' = VecTransferToHost(
                           [AnalogVectorOwned(ExCols, FALSE) EXCEPT !.device_arr = data],
                           StoreScale(t))
          /\ call' = Call("store_vector", t, t, StoreScale(t))
    /\ UNCHANGED ptrVars
    /\ PtrFrame

\* mvm_store_vector on a tile without an input vector: null AnalogType*
PtrStoreNull ==
    /\ call.op # "abort"
    /\ \E t \in PtrTiles :
          /\ get_input_vector(t) = nullptr
          /\ call' = Call("abort", t, t, NoScale)
    /\ handle' = NoHandle
    /\ UNCHANGED ptrVars
    /\ PtrFrame

\* call.carried: whether the call just before was a compute on the source tile
PtrMoveVector ==
    /\ call.op # "abort"
    /\ \E t \in PtrTiles, tn \in PtrTiles :
          /\ input_vectors' = move_vector(t, tn)
          /\ call' = Call("move_vector", t, tn, call.op = "compute" /\ call.tile = t)
    /\ handle' = NoHandle
    /\ UNCHANGED <<matrices, output_vectors, analog_types>>
    /\ PtrFrame

NextPtr ==
    \/ PtrSetMatrix
    \/ PtrLoadVector
    \/ PtrCompute
    \/ PtrComputeNull
    \/ PtrStoreVector
    \/ PtrStoreNull
    \/ PtrMoveVector

SpecPtr == InitPtr /\ [][NextPtr]_vars

\* C17: after k computes in a row on a tile, with no reload in between, the
\* scale mvm_store_vector reads for the tile is v * m^k, where v is the
\* input vector handle's scale before the first of them and m the scale of
\* the tile's matrix handle: every compute multiplies it in once more.
C17_ScaleAccumulates ==
    (call.op = "compute") =>
        StoreScale(call.tile) =
            RMul(call.carried.v,
                 RPow(get_scale_factor(get_matrix(call.tile)), call.carried.k))

\* two computes in a row on a tile holding vecX (5) and matB (3): the scale
\* a store would read is 5 * 3 * 3, not 5 * 3
C17_Witness ==
    /\ call.op = "compute" /\ call.carried.k = 2
    /\ call.carried.v = RInt(5)
    /\ get_matrix(call.tile) = "matB" /\ get_scale_factor("matB") = RInt(3)
    /\ get_input_vector(call.tile) = "vecX"
    /\ StoreScale(call.tile) = RInt(45)

\* C18: right after compute(A) and move_vector(A, B), A # B, both tiles point
\* at the same vector handle; a compute(B) that follows multiplies the scale
\* mvm_store_vector reads for tile A by B's matrix scale.
C18_SharedHandle ==
    /\ (call.op = "move_vector" /\ call.carried /\ call.tile # call.tile2) =>
          /\ get_input_vector(call.tile) # nullptr
          /\ get_input_vector(call.tile2) = get_input_vector(call.tile)
    /\ (call.op = "compute" /\ call.carried.via \in PtrTiles /\ call.carried.via # call.tile) =>
          /\ get_input_vector(call.carried.via) = get_input_vector(call.tile)
          /\ StoreScale(call.carried.via) =
                RMul(call.carried.v, get_scale_factor(get_matrix(call.tile)))

\* vecX (5) computed on tile 0 with matA (2), moved to tile 1 and computed
\* there with matB (3): a store on tile 0 now reads 30 instead of 10
C18_Witness ==
    /\ call.op = "compute" /\ call.tile = 1 /\ call.carried.via = 0
    /\ get_matrix(0) = "matA" /\ get_matrix(1) = "matB"
    /\ get_input_vector(0) = "vecX" /\ get_input_vector(1) = "vecX"
    /\ call.carried.v = RInt(10)
    /\ StoreScale(0) = RInt(30)

====
